---- MODULE Spec2Model ----
(***************************************************************************)
(* Multi-assistant chat platform: storage (server/storage.ts), the HTTP    *)
(* routes (server/routes.ts), the Responses-API call                       *)
(* (services/openai-responses.ts) and the per-assistant vector store       *)
(* attachment (services/assistant.ts), and the chat client's sendMessage   *)
(* (client/src/components/upload-section.tsx).                             *)
(*                                                                         *)
(* Every route handler is an async function; each `await` on storage or on *)
(* the remote service is a point where another request may run.  Handlers  *)
(* whose awaits cannot be told apart by any other request are one action;  *)
(* the chat turn and the file upload are one action per await.             *)
(***************************************************************************)
EXTENDS Integers, Sequences, FiniteSets, TLC

(* ------------------------------ bounds -------------------------------- *)
MaxAssistants == 2
MaxGrants     == 2
MaxSessions   == 1
MaxTurns      == 2
MaxUploads    == 2
MaxExports    == 2
MaxEvents     == 2
MaxClearingSessions == 2
MaxClearingTurns    == 3

(* ------------------------------ inputs -------------------------------- *)
Null == 0
Usernames      == {"alice", "bob"}
Roles          == {"admin", "user"}
\* what a request body may carry as role: a role, another string, or nothing
RoleInputs     == {"admin", "user", "root", ""}
ADMIN_SECRET   == "secret"
SecretInputs   == {ADMIN_SECRET, "guess"}
\* what the body of POST /api/assistants may carry as openaiVectorStoreId: nothing, or a
\* handle the remote service never issued
VectorStoreInputs == {Null, -1, -2}
\* text.annotations of a response content item, as chatWithFilesearch reads it
Quoted   == [type |-> "file_citation", file_id |-> "file-1", quote |-> "q", text |-> ""]
AnnotationLists == {<<>>, <<Quoted>>}
\* the other annotations a content item may carry: a file citation with the annotation's
\* text only, one with neither quote nor text, and a citation of a web page
TextOnly == [type |-> "file_citation", file_id |-> "file-1", quote |-> "", text |-> "t"]
Bare     == [type |-> "file_citation", file_id |-> "", quote |-> "", text |-> ""]
\* error.message of what the remote call, or a store, throws
FailureReasons == {"timeout", "quota"}
UrlCited == [type |-> "url_citation", file_id |-> "", quote |-> "", text |-> "u"]
Annotations == {Quoted, TextOnly, Bare, UrlCited}
AllAnnotationLists ==
  {<<>>} \cup {<<a>> : a \in Annotations} \cup {<<a, b>> : a \in Annotations, b \in Annotations}

VARIABLES
  users,          \* MemStorage.users: id -> [username, role]
  assistants,     \* MemStorage.assistants: id -> [openaiAssistantId, openaiVectorStoreId,
                  \*                                isActive]
  access,         \* MemStorage.userAssistantAccess, in insertion order: [userId, assistantId]
  sessions,       \* MemStorage.sessions: id -> [userId, assistantId, responseId, title]
  messages,       \* MemStorage.messages, in insertion order
  nextId,         \* ids handed out so far, per kind (randomUUID / remote ids never repeat)
  now,            \* the clock new Date() reads
  turns,          \* POST /api/sessions/:sessionId/chat requests past their checks
  files,          \* MemStorage.files: id -> [assistantId, filename, openaiFileId]
  staged,         \* the uploads directory: the names of the files multer has written
  uploads,        \* POST /api/assistants/:id/files requests past their checks
  remote,         \* the remote service: assistants' tool_resources and the vector stores
  res,            \* the response of the last request answered in one step
  sent,           \* the body of the last export sent, and how many were sent
  client          \* the chat client: ChatInterface.sendMessage and its React state

vars == <<users, assistants, access, sessions, messages, files, staged, nextId, now, turns,
          uploads, remote, res, sent, client>>

Response(op, user, sid, status, message) ==
  [op |-> op, user |-> user, sid |-> sid, status |-> status, message |-> message]

\* nothing exported yet
NoExport == [sid |-> Null, format |-> "", body |-> <<>>, count |-> 0]

\* useState of ChatInterface: isStreaming false, streamingMessage "".  emitted and
\* sentinel are what the response stream of the current request carries, wire the bytes
\* of it not read yet, assembled the streamingMessage the sentinel found.
IdleClient == [pc |-> "idle", isStreaming |-> FALSE, streamingMessage |-> <<>>,
               toast |-> "", emitted |-> <<>>, sentinel |-> FALSE, wire |-> <<>>,
               sawDone |-> FALSE, assembled |-> <<>>]

Init ==
  /\ users = <<>>
  /\ assistants = <<>>
  /\ access = <<>>
  /\ sessions = <<>>
  /\ messages = <<>>
  /\ nextId = [assistant |-> 1, session |-> 1, message |-> 1, response |-> 1,
               file |-> 1, vectorStore |-> 1, remoteAssistant |-> 1, document |-> 1,
               staged |-> 1]
  /\ now = 0
  /\ files = <<>>
  /\ turns = <<>>
  /\ uploads = <<>>
  /\ remote = [assistants |-> <<>>, vectorStores |-> <<>>]
  /\ res = Response("none", Null, Null, 0, "")
  /\ staged = {}
  /\ sent = NoExport
  /\ client = IdleClient

(* ------------------------- middleware/auth.ts -------------------------- *)
UserIds == DOMAIN users
\* ids a request may name as :userId: every user, and one that does not exist
UserIdInputs == 1..(Len(users) + 1)

\* requireAuth: the request carries a logged-in user
requireAuth(u) == u \in UserIds

\* requireAdmin: logged in, and the user's role is admin
requireAdmin(u) == u \in UserIds /\ users[u].role = "admin"


(* ----------------------- storage.ts: MemStorage ------------------------ *)
\* a Map with key k removed
Without(map, k) == [x \in DOMAIN map \ {k} |-> map[x]]

\* a Map with key k set
With(map, k, v) == [x \in DOMAIN map \cup {k} |-> IF x = k THEN v ELSE map[x]]

getUserByUsername(username) == {u \in UserIds : users[u].username = username}

createUser(username, role) ==
  Append(users, [username |-> username, role |-> IF role = "" THEN "user" ELSE role])

updateUserRole(userId, role) == [users EXCEPT ![userId].role = role]

\* as hasUserAssistantAccess, with the match on the user forgotten
hasAnyUserAssistantAccess(userId, assistantId) ==
  \E i \in DOMAIN access : access[i].assistantId = assistantId

hasUserAssistantAccess(userId, assistantId) ==
  \E i \in DOMAIN access : access[i].userId = userId /\ access[i].assistantId = assistantId

\* the ids of the assistants getUserAssistantAccess returns: granted to the user and active
getUserAssistantAccess(userId) ==
  {a \in DOMAIN assistants :
     /\ \E i \in DOMAIN access : access[i].userId = userId /\ access[i].assistantId = a
     /\ assistants[a].isActive = 1}

grantUserAssistantAccess(userId, assistantId) ==
  Append(access, [userId |-> userId, assistantId |-> assistantId])

\* deletes the first matching entry and stops
revokeUserAssistantAccess(userId, assistantId) ==
  LET hits == {i \in DOMAIN access :
                 access[i].userId = userId /\ access[i].assistantId = assistantId}
  IN IF hits = {} THEN access
     ELSE LET first == CHOOSE i \in hits : \A j \in hits : i <= j
          IN SubSeq(access, 1, first - 1) \o SubSeq(access, first + 1, Len(access))

\* MemStorage.deleteFile
deleteFile(id) == Without(files, id)

\* deleteAssistant without its last loop: the grants stay
deleteAssistantKeepsGrants(id) ==
  [assistants |-> Without(assistants, id),
   files      |-> [f \in {g \in DOMAIN files : files[g].assistantId # id} |-> files[f]],
   access     |-> access]

\* MemStorage.deleteAssistant: the assistant, then the files and the grants that name it
\* (DbStorage: one delete, the foreign keys of uploaded_files and user_assistant_access
\* cascade).  MemStorage leaves the sessions as they are.
deleteAssistant(id) ==
  [assistants |-> Without(assistants, id),
   files      |-> [f \in {g \in DOMAIN files : files[g].assistantId # id} |-> files[f]],
   access     |-> SelectSeq(access, LAMBDA g : g.assistantId # id)]

createSession(id, userId, assistantId, title) ==
  With(sessions, id, [userId |-> userId, assistantId |-> assistantId,
                      responseId |-> Null, title |-> title])

\* undefined (the map unchanged) when the session is gone
updateSessionTitle(id, title) ==
  IF id \in DOMAIN sessions THEN [sessions EXCEPT ![id].title = title] ELSE sessions

updateSessionResponseId(id, responseId) ==
  IF id \in DOMAIN sessions THEN [sessions EXCEPT ![id].responseId = responseId] ELSE sessions

clearMessages(sessionId) == SelectSeq(messages, LAMBDA m : m.sessionId # sessionId)

\* removes the session and every message of it
deleteSession(id) == [sessions |-> Without(sessions, id), messages |-> clearMessages(id)]

createMessage(id, sessionId, role, content, citations, timestamp) ==
  Append(messages, [id |-> id, sessionId |-> sessionId, role |-> role, content |-> content,
                    citations |-> citations, timestamp |-> timestamp])

\* Array.prototype.sort is stable: equal timestamps keep insertion order
RECURSIVE InsertByTimestamp(_, _)
InsertByTimestamp(sorted, m) ==
  IF sorted = <<>> THEN <<m>>
  ELSE IF sorted[Len(sorted)].timestamp <= m.timestamp THEN Append(sorted, m)
  ELSE Append(InsertByTimestamp(SubSeq(sorted, 1, Len(sorted) - 1), m), sorted[Len(sorted)])

RECURSIVE SortByTimestamp(_)
SortByTimestamp(seq) ==
  IF seq = <<>> THEN <<>>
  ELSE InsertByTimestamp(SortByTimestamp(SubSeq(seq, 1, Len(seq) - 1)), seq[Len(seq)])

\* as getMessages, with the comparator of getAssistantFiles (newest first)
getMessagesNewestFirst(sessionId) ==
  LET oldestFirst == SortByTimestamp(SelectSeq(messages, LAMBDA m : m.sessionId = sessionId))
  IN [i \in 1..Len(oldestFirst) |-> oldestFirst[Len(oldestFirst) + 1 - i]]

\* getMessages on a given content of the store
History(store, sessionId) ==
  SortByTimestamp(SelectSeq(store, LAMBDA m : m.sessionId = sessionId))

getMessages(sessionId) == History(messages, sessionId)

\* the values new Date() can return at the next read: the clock has not moved, or it has
Clock == {now, now + 1}

(* ----------------------- routes.ts: accounts --------------------------- *)
\* POST /api/auth/signup
\* as signupRole, taking the role from the request body
signupRoleFromBody(role) == role

\* the role POST /api/auth/signup gives to createUser
signupRole(role) == "user"

\* the body's role is not read: the user is created with the literal "user"
Signup(username, role) ==
  /\ IF getUserByUsername(username) # {}
       THEN /\ res' = Response("signup", Null, Null, 400, "Username already exists")
            /\ UNCHANGED users
       ELSE /\ users' = createUser(username, signupRole(role))
            /\ res' = Response("signup", Len(users) + 1, Null, 200, "")
  /\ UNCHANGED <<assistants, access, sessions, messages, nextId, now, turns, files,
                 uploads, remote, staged, sent, client>>

\* POST /api/auth/admin-signup
AdminSignup(username, role, adminSecret) ==
  /\ IF adminSecret # ADMIN_SECRET
       THEN /\ res' = Response("admin-signup", Null, Null, 403, "Invalid admin secret")
            /\ UNCHANGED users
       ELSE IF getUserByUsername(username) # {}
       THEN /\ res' = Response("admin-signup", Null, Null, 400, "Username already exists")
            /\ UNCHANGED users
       ELSE /\ users' = createUser(username, IF role = "admin" THEN "admin" ELSE "user")
            /\ res' = Response("admin-signup", Len(users) + 1, Null, 200, "")
  /\ UNCHANGED <<assistants, access, sessions, messages, nextId, now, turns, files,
                 uploads, remote, staged, sent, client>>

\* PATCH /api/users/:userId/role
UpdateUserRole(admin, userId, role) ==
  /\ requireAdmin(admin)
  /\ IF role \notin Roles
       THEN /\ res' = Response("update-role", admin, userId, 400,
                               "Invalid role. Must be 'admin' or 'user'")
            /\ UNCHANGED users
       ELSE IF userId \notin UserIds
       THEN /\ res' = Response("update-role", admin, userId, 404, "User not found")
            /\ UNCHANGED users
       ELSE /\ users' = updateUserRole(userId, role)
            /\ res' = Response("update-role", admin, userId, 200, "")
  /\ UNCHANGED <<assistants, access, sessions, messages, nextId, now, turns, files,
                 uploads, remote, staged, sent, client>>

\* POST /api/users/:userId/assistant-access
GrantAccess(admin, userId, assistantId) ==
  /\ requireAdmin(admin)
  /\ Len(access) < MaxGrants
  /\ access' = grantUserAssistantAccess(userId, assistantId)
  /\ res' = Response("grant", admin, Null, 200, "")
  /\ UNCHANGED <<users, assistants, sessions, messages, nextId, now, turns, files, uploads,
                 remote, staged, sent, client>>

\* DELETE /api/users/:userId/assistant-access/:assistantId
RevokeAccess(admin, userId, assistantId) ==
  /\ requireAdmin(admin)
  /\ access' = revokeUserAssistantAccess(userId, assistantId)
  /\ res' = Response("revoke", admin, Null, 200, "Access revoked successfully")
  /\ UNCHANGED <<users, assistants, sessions, messages, nextId, now, turns, files, uploads,
                 remote, staged, sent, client>>

(* ----------------------- routes.ts: assistants ------------------------- *)
\* POST /api/assistants: createOpenAIAssistant, then storage.createAssistant with the
\* validated body, which may carry openaiVectorStoreId (insertAssistantSchema keeps it)
CreateAssistant(admin, vectorStoreId) ==
  /\ requireAdmin(admin)
  /\ nextId.assistant <= MaxAssistants
  /\ LET id == nextId.assistant
         openaiAssistantId == nextId.remoteAssistant
     IN /\ remote' = [remote EXCEPT
                        !.assistants = With(@, openaiAssistantId, [vector_store_ids |-> <<>>])]
        /\ assistants' = With(assistants, id,
                              [openaiAssistantId |-> openaiAssistantId,
                               openaiVectorStoreId |-> vectorStoreId,
                               isActive |-> 1])
        /\ nextId' = [nextId EXCEPT !.assistant = @ + 1, !.remoteAssistant = @ + 1]
        /\ res' = Response("create-assistant", admin, Null, 200, "")
  /\ UNCHANGED <<users, access, sessions, messages, now, turns, files, uploads, staged,
                 sent, client>>


\* PUT /api/assistants/:id with a body that carries isActive only (no name, instructions
\* or model: updateOpenAIAssistant is not called); the route never writes
\* openaiVectorStoreId
UpdateAssistant(admin, id, isActive) ==
  /\ requireAdmin(admin)
  /\ IF id \notin DOMAIN assistants
       THEN /\ res' = Response("update-assistant", admin, id, 404, "Assistant not found")
            /\ UNCHANGED assistants
       ELSE /\ assistants' = [assistants EXCEPT ![id].isActive = IF isActive THEN 1 ELSE 0]
            /\ res' = Response("update-assistant", admin, id, 200, "")
  /\ UNCHANGED <<users, access, sessions, messages, files, staged, nextId, now, turns,
                 uploads, remote, sent, client>>

\* what deleteOpenAIAssistant may do: delete the remote assistant, or throw
DeleteOutcomes == {"deleted", "throws"}

\* DELETE /api/assistants/:id.  deleteOpenAIAssistant is awaited inside the try block of
\* the route: when it throws, the catch answers 500 and storage.deleteAssistant is not
\* reached.
DeleteAssistant(admin, id, outcome) ==
  /\ requireAdmin(admin)
  /\ IF id \notin DOMAIN assistants
       THEN /\ res' = Response("delete-assistant", admin, id, 404, "Assistant not found")
            /\ UNCHANGED <<assistants, files, access, remote>>
       ELSE IF outcome = "throws"
       THEN /\ res' = Response("delete-assistant", admin, id, 500, "remote")
            /\ UNCHANGED <<assistants, files, access, remote>>
       ELSE LET o == deleteAssistant(id)
            IN /\ remote' = [remote EXCEPT
                               !.assistants = Without(@, assistants[id].openaiAssistantId)]
               /\ assistants' = o.assistants
               /\ files' = o.files
               /\ access' = o.access
               /\ res' = Response("delete-assistant", admin, id, 200,
                                  "Assistant deleted successfully")
  /\ UNCHANGED <<users, sessions, messages, nextId, now, turns, uploads, staged, sent,
                 client>>

(* ------------- routes.ts and services/assistant.ts: uploads ------------ *)
Uploads == DOMAIN uploads

SetUpload(k, fields) == [uploads EXCEPT ![k] = fields @@ uploads[k]]

\* an upload that passed the checks of the route: the assistant it read, what it is about
\* to do
NewUpload(id) ==
  [pc |-> "uploadFile", assistantId |-> id,
   openaiAssistantId |-> assistants[id].openaiAssistantId,
   filename |-> nextId.staged,
   openaiFileId |-> Null, vectorStoreId |-> Null, file |-> Null, status |-> 0]

\* POST /api/assistants/:id/files, up to the read of the assistant (every assistant of
\* the model was created with its openaiAssistantId).  upload.single("file") has written
\* the file into the uploads directory under a fresh name before the handler runs.
UploadReceive(admin, id) ==
  /\ requireAdmin(admin)
  /\ nextId.staged <= MaxUploads
  /\ staged' = staged \cup {nextId.staged}
  /\ nextId' = [nextId EXCEPT !.staged = @ + 1]
  /\ IF id \notin DOMAIN assistants
       THEN /\ res' = Response("upload", admin, Null, 404, "Assistant not found")
            /\ UNCHANGED uploads
       ELSE /\ uploads' = Append(uploads, NewUpload(id))
            /\ UNCHANGED res
  /\ UNCHANGED <<users, assistants, access, sessions, messages, files, now, turns, remote,
                 sent, client>>

\* uploadFileToOpenAI: openai.files.create
UploadFile(k) ==
  /\ uploads[k].pc = "uploadFile"
  /\ uploads' = SetUpload(k, [pc |-> "retrieve", openaiFileId |-> nextId.document])
  /\ nextId' = [nextId EXCEPT !.document = @ + 1]
  /\ UNCHANGED <<users, assistants, access, sessions, messages, files, now, turns, remote,
                 res, staged, sent, client>>

\* tool_resources?.file_search?.vector_store_ids?.[0] of a retrieved assistant
FirstVectorStore(openaiAssistantId) ==
  LET ids == remote.assistants[openaiAssistantId].vector_store_ids
  IN IF ids = <<>> THEN Null ELSE ids[1]

\* attachFileToAssistant: assistants.retrieve, and the read of its first vector store
AttachRetrieve(k) ==
  /\ uploads[k].pc = "retrieve"
  /\ uploads[k].openaiAssistantId \in DOMAIN remote.assistants
  /\ LET vectorStoreId == FirstVectorStore(uploads[k].openaiAssistantId)
     IN uploads' = SetUpload(k, [pc |-> IF vectorStoreId = Null THEN "createVectorStore"
                                                                  ELSE "addFile",
                                 vectorStoreId |-> vectorStoreId])
  /\ UNCHANGED <<users, assistants, access, sessions, messages, files, nextId, now, turns,
                 remote, res, staged, sent, client>>

\* attachFileToAssistant: vectorStores.create, named after the assistant
AttachCreateVectorStore(k) ==
  /\ uploads[k].pc = "createVectorStore"
  /\ remote' = [remote EXCEPT
                  !.vectorStores = With(@, nextId.vectorStore,
                                        [name |-> uploads[k].openaiAssistantId,
                                         files |-> {}])]
  /\ uploads' = SetUpload(k, [pc |-> "link", vectorStoreId |-> nextId.vectorStore])
  /\ nextId' = [nextId EXCEPT !.vectorStore = @ + 1]
  /\ UNCHANGED <<users, assistants, access, sessions, messages, files, now, turns, res,
                 staged, sent, client>>

\* attachFileToAssistant: assistants.update with vector_store_ids: [vectorStoreId]
AttachLink(k) ==
  /\ uploads[k].pc = "link"
  /\ uploads[k].openaiAssistantId \in DOMAIN remote.assistants
  /\ remote' = [remote EXCEPT
                  !.assistants[uploads[k].openaiAssistantId].vector_store_ids =
                     <<uploads[k].vectorStoreId>>]
  /\ uploads' = SetUpload(k, [pc |-> "addFile"])
  /\ UNCHANGED <<users, assistants, access, sessions, messages, files, nextId, now, turns,
                 res, staged, sent, client>>

\* attachFileToAssistant: vectorStores.fileBatches.createAndPoll
AttachAddFile(k) ==
  /\ uploads[k].pc = "addFile"
  /\ remote' = [remote EXCEPT
                  !.vectorStores[uploads[k].vectorStoreId].files =
                     @ \cup {uploads[k].openaiFileId}]
  /\ uploads' = SetUpload(k, [pc |-> "createFile"])
  /\ UNCHANGED <<users, assistants, access, sessions, messages, files, nextId, now, turns,
                 res, staged, sent, client>>

\* storage.createFile, then res.json(file)
UploadCreateFile(k) ==
  /\ uploads[k].pc = "createFile"
  /\ files' = With(files, nextId.file, [assistantId |-> uploads[k].assistantId,
                                        filename |-> uploads[k].filename,
                                        openaiFileId |-> uploads[k].openaiFileId])
  /\ nextId' = [nextId EXCEPT !.file = @ + 1]
  /\ uploads' = SetUpload(k, [pc |-> "done", file |-> nextId.file, status |-> 200])
  /\ UNCHANGED <<users, assistants, access, sessions, messages, now, turns, remote, res,
                 staged, sent, client>>

\* the catch block: a call to the remote service threw
UploadFail(k) ==
  /\ uploads[k].pc \in {"uploadFile", "retrieve", "createVectorStore", "link", "addFile"}
  /\ uploads' = SetUpload(k, [pc |-> "failed", status |-> 500])
  /\ UNCHANGED <<users, assistants, access, sessions, messages, files, nextId, now, turns,
                 remote, res, staged, sent, client>>

(* ------------------- routes.ts: deleting a document -------------------- *)
\* what removeFileFromAssistant may meet: every remote call answers; assistants.retrieve
\* throws (outside any try block of the function); vectorStores.files.list or .del
\* throws (inside the try block of the loop, which logs and goes on)
RemoveOutcomes == {"answers", "retrieveThrows", "storeThrows"}

\* the vector stores after removeFileFromAssistant: the file leaves the first store of
\* the assistant that lists it
removeFileFromAssistant(openaiAssistantId, openaiFileId, outcome) ==
  LET ids  == remote.assistants[openaiAssistantId].vector_store_ids
      hits == {i \in DOMAIN ids : openaiFileId \in remote.vectorStores[ids[i]].files}
      hit  == CHOOSE i \in hits : \A j \in hits : i <= j
  IN IF outcome = "answers" /\ hits # {}
       THEN [remote.vectorStores EXCEPT ![ids[hit]].files = @ \ {openaiFileId}]
       ELSE remote.vectorStores

\* the check of the route when any document passes for a document of the assistant
belongsToAnyAssistant(fileId, id) == fileId \in DOMAIN files

\* file.assistantId !== id, negated
belongsToAssistant(fileId, id) == files[fileId].assistantId = id

\* DELETE /api/assistants/:id/files/:fileId as a function of its inputs: the response,
\* and the document records, the uploads directory and the vector stores it leaves
DeleteFileOutcome(id, fileId, outcome) ==
  LET same(status, message) ==
        [status |-> status, message |-> message, files |-> files, staged |-> staged,
         vectorStores |-> remote.vectorStores]
  IN IF id \notin DOMAIN assistants THEN same(404, "Assistant not found")
     ELSE IF fileId \notin DOMAIN files THEN same(404, "File not found")
     ELSE IF ~belongsToAssistant(fileId, id)
       THEN same(403, "File does not belong to this assistant")
     ELSE IF outcome = "retrieveThrows" THEN same(500, "remote")
     ELSE [status |-> 200, message |-> "File deleted successfully",
           files |-> deleteFile(fileId),
           staged |-> staged \ {files[fileId].filename},
           vectorStores |-> removeFileFromAssistant(assistants[id].openaiAssistantId,
                                                    files[fileId].openaiFileId, outcome)]

FileIdInputs == 1..nextId.file

DeleteFile(admin, id, fileId, outcome) ==
  /\ requireAdmin(admin)
  /\ LET o == DeleteFileOutcome(id, fileId, outcome)
     IN /\ files' = o.files
        /\ staged' = o.staged
        /\ remote' = [remote EXCEPT !.vectorStores = o.vectorStores]
        /\ res' = Response("delete-file", admin, fileId, o.status, o.message)
  /\ UNCHANGED <<users, assistants, access, sessions, messages, nextId, now, turns, uploads,
                 sent, client>>

(* -------------- ChatInterface.sendMessage: the chat client ------------- *)
\* the text deltas a stream may carry
Deltas == {"a", "b"}

RECURSIVE Streams(_)
\* the sequences of at most n deltas
Streams(n) ==
  IF n = 0 THEN {<<>>}
  ELSE Streams(n - 1) \cup {Append(e, c) : e \in {x \in Streams(n - 1) : Len(x) = n - 1},
                                           c \in Deltas}

\* the bytes of the stream as the client's parser expects them, one string per unit that
\* the network does not split in the model: "d" is the prefix `data: `, "{", c, "}" the
\* JSON text {"content": c}, "!" the text [DONE]
ContentEvent(c) == <<"d", "{", c, "}", "\n", "\n">>
DoneEvent       == <<"d", "!", "\n", "\n">>

RECURSIVE Encode(_, _)
Encode(events, sentinel) ==
  IF events = <<>> THEN (IF sentinel THEN DoneEvent ELSE <<>>)
  ELSE ContentEvent(Head(events)) \o Encode(Tail(events), sentinel)

RECURSIVE Split(_)
\* chunk.split("\n")
Split(chunk) ==
  IF \A i \in DOMAIN chunk : chunk[i] # "\n" THEN <<chunk>>
  ELSE LET i == CHOOSE k \in DOMAIN chunk :
                  chunk[k] = "\n" /\ \A j \in 1..(k - 1) : chunk[j] # "\n"
       IN <<SubSeq(chunk, 1, i - 1)>> \o Split(SubSeq(chunk, i + 1, Len(chunk)))

\* JSON.parse(data).content when data parses and has a content, <<>> otherwise
ParsedContent(data) ==
  IF Len(data) = 3 /\ data[1] = "{" /\ data[3] = "}" /\ data[2] \in Deltas
    THEN <<data[2]>> ELSE <<>>

RECURSIVE ProcessLines(_, _)
\* the loop over the lines of one chunk: the state of the component after it
ProcessLines(lines, c) ==
  IF lines = <<>> THEN c
  ELSE LET line == Head(lines)
       IN IF line # <<>> /\ line[1] = "d"
            THEN IF Tail(line) = <<"!">>
                   THEN [c EXCEPT !.isStreaming = FALSE, !.streamingMessage = <<>>,
                                  !.sawDone = TRUE, !.assembled = c.streamingMessage]
                   ELSE ProcessLines(Tail(lines),
                                     [c EXCEPT !.streamingMessage =
                                                  @ \o ParsedContent(Tail(line))])
            ELSE ProcessLines(Tail(lines), c)

\* sendMessage up to the fetch: it returns at once while isStreaming
ClientSend ==
  /\ client.pc \in {"idle", "returned"}
  /\ ~client.isStreaming
  /\ client' = [IdleClient EXCEPT !.pc = "fetching", !.isStreaming = TRUE]
  /\ UNCHANGED <<users, assistants, access, sessions, messages, files, staged, nextId, now,
                 turns, uploads, remote, res, sent>>

\* the catch block: fetch rejected, the response was not ok, or reader.read() rejected
ClientFail ==
  /\ client.pc \in {"fetching", "reading"}
  /\ client' = [client EXCEPT !.pc = "returned", !.isStreaming = FALSE,
                              !.streamingMessage = <<>>, !.toast = "Error"]
  /\ UNCHANGED <<users, assistants, access, sessions, messages, files, staged, nextId, now,
                 turns, uploads, remote, res, sent>>

\* the response is application/json
ClientJson ==
  /\ client.pc = "fetching"
  /\ client' = [client EXCEPT !.pc = "returned", !.isStreaming = FALSE,
                              !.streamingMessage = <<>>]
  /\ UNCHANGED <<users, assistants, access, sessions, messages, files, staged, nextId, now,
                 turns, uploads, remote, res, sent>>

\* the response is a stream: res.body.getReader()
ClientStream(events, sentinel) ==
  /\ client.pc = "fetching"
  /\ client' = [client EXCEPT !.pc = "reading", !.emitted = events,
                              !.sentinel = sentinel, !.wire = Encode(events, sentinel)]
  /\ UNCHANGED <<users, assistants, access, sessions, messages, files, staged, nextId, now,
                 turns, uploads, remote, res, sent>>

\* reader.read() resolves with the next n bytes, and the body of the while loop
ClientRead(n) ==
  /\ client.pc = "reading"
  /\ n \in 1..Len(client.wire)
  /\ client' = ProcessLines(Split(SubSeq(client.wire, 1, n)),
                            [client EXCEPT !.wire = SubSeq(@, n + 1, Len(@))])
  /\ UNCHANGED <<users, assistants, access, sessions, messages, files, staged, nextId, now,
                 turns, uploads, remote, res, sent>>

\* reader.read() resolves with done: break, and sendMessage returns
ClientEnd ==
  /\ client.pc = "reading"
  /\ client.wire = <<>>
  /\ client' = [client EXCEPT !.pc = "returned"]
  /\ UNCHANGED <<users, assistants, access, sessions, messages, files, staged, nextId, now,
                 turns, uploads, remote, res, sent>>

(* ----------------------- routes.ts: sessions --------------------------- *)
\* as verifySessionOwnership, with the comparison of the owner forgotten
verifySessionExists(sessionId, userId) == sessionId \in DOMAIN sessions

\* Helper of every session route: the session exists and is the user's
verifySessionOwnership(sessionId, userId) ==
  sessionId \in DOMAIN sessions /\ sessions[sessionId].userId = userId

NotFound(op, u, sid) == Response(op, u, sid, 404, "Session not found")

\* what a session route leaves behind: the stores it may write, the chat turns it may
\* start, and its response
Outcome(s, m, t, r) == [sessions |-> s, messages |-> m, turns |-> t, res |-> r]

Denied(op, u, sid) == Outcome(sessions, messages, turns, NotFound(op, u, sid))

\* ids a request may name: every id handed out so far, and one never handed out
SessionIdInputs   == 1..nextId.session
AssistantIdInputs == 1..(nextId.assistant - 1)

\* POST /api/sessions: the sessions and the response it leaves behind
PostSession(u, assistantId) ==
  IF assistantId # Null /\ ~hasUserAssistantAccess(u, assistantId) /\ users[u].role # "admin"
    THEN [sessions |-> sessions,
          res |-> Response("create-session", u, Null, 403,
                           "You don't have access to this assistant")]
    ELSE [sessions |-> createSession(nextId.session, u, assistantId, "New Conversation"),
          res |-> Response("create-session", u, nextId.session, 200, "")]

\* POST /api/sessions, while fewer than limit sessions were created
CreateSessionUpTo(u, assistantId, limit) ==
  /\ requireAuth(u)
  /\ LET o == PostSession(u, assistantId)
     IN /\ o.res.status = 200 => nextId.session <= limit
        /\ sessions' = o.sessions
        /\ res' = o.res
        /\ nextId' = [nextId EXCEPT !.session = IF o.res.status = 200 THEN @ + 1 ELSE @]
  /\ UNCHANGED <<users, assistants, access, messages, files, now, turns, uploads, remote,
                 staged, sent, client>>

CreateSession(u, assistantId) == CreateSessionUpTo(u, assistantId, MaxSessions)

\* PATCH /api/sessions/:id
PatchSession(u, sid, title) ==
  IF ~verifySessionOwnership(sid, u) THEN Denied("patch-session", u, sid)
  ELSE Outcome(updateSessionTitle(sid, title), messages, turns,
               Response("patch-session", u, sid, 200, ""))

\* DELETE /api/sessions/:id
DeleteSession(u, sid) ==
  IF ~verifySessionOwnership(sid, u) THEN Denied("delete-session", u, sid)
  ELSE Outcome(deleteSession(sid).sessions, deleteSession(sid).messages, turns,
               Response("delete-session", u, sid, 200, "Session deleted successfully"))

\* GET /api/sessions/:sessionId/messages
GetMessages(u, sid) ==
  IF ~verifySessionOwnership(sid, u) THEN Denied("get-messages", u, sid)
  ELSE Outcome(sessions, messages, turns, Response("get-messages", u, sid, 200, ""))

\* as ClearMessages, forgetting the session's responseId as well
ClearMessagesAndToken(u, sid) ==
  IF ~verifySessionOwnership(sid, u) THEN Denied("clear-messages", u, sid)
  ELSE Outcome(updateSessionResponseId(sid, Null), clearMessages(sid), turns,
               Response("clear-messages", u, sid, 200, "Chat history cleared"))

\* DELETE /api/sessions/:sessionId/messages
ClearMessages(u, sid) ==
  IF ~verifySessionOwnership(sid, u) THEN Denied("clear-messages", u, sid)
  ELSE Outcome(sessions, clearMessages(sid), turns,
               Response("clear-messages", u, sid, 200, "Chat history cleared"))

\* GET /api/sessions/:sessionId/export
ExportSession(u, sid, format) ==
  IF ~verifySessionOwnership(sid, u) THEN Denied("export", u, sid)
  ELSE IF format \in {"json", "markdown", "md", "txt", "text"}
  THEN Outcome(sessions, messages, turns, Response("export", u, sid, 200, ""))
  ELSE Outcome(sessions, messages, turns,
               Response("export", u, sid, 400,
                        "Invalid format. Use 'json', 'markdown', or 'text'"))

\* a chat request that passed the checks up to getSession: what it read, what it is
\* about to do
NewTurn(u, sid, message) ==
  [pc |-> "getAssistant", user |-> u, sessionId |-> sid, message |-> message,
   assistantId |-> sessions[sid].assistantId,
   previousResponseId |-> sessions[sid].responseId,
   vectorStoreId |-> Null, request |-> <<>>, userMessage |-> Null,
   responseId |-> Null, annotations |-> <<>>, citations |-> <<>>,
   assistantMessage |-> Null, status |-> 0, error |-> ""]

\* POST /api/sessions/:sessionId/chat, up to the read of the session
ChatReceive(u, sid, message) ==
  IF message = "" THEN
    Outcome(sessions, messages, turns, Response("chat", u, sid, 400, "Message is required"))
  ELSE IF ~verifySessionOwnership(sid, u) THEN Denied("chat", u, sid)
  ELSE IF sessions[sid].assistantId = Null THEN
    Outcome(sessions, messages, turns,
            Response("chat", u, sid, 400, "No assistant selected for this session"))
  ELSE Outcome(sessions, messages, Append(turns, NewTurn(u, sid, message)), res)

SessionOps == {"patch-session", "delete-session", "get-messages", "clear-messages",
               "export", "chat"}

\* the arguments a request to op may carry besides the session id
Arguments(op) ==
  CASE op = "patch-session" -> {"renamed"}
    [] op = "export"        -> {"json", "xml"}
    [] op = "chat"          -> {"", "hello"}
    [] OTHER                -> {""}

\* the outcome of session route op requested by u on sid
Handle(op, u, sid, arg) ==
  CASE op = "patch-session"  -> PatchSession(u, sid, arg)
    [] op = "delete-session" -> DeleteSession(u, sid)
    [] op = "get-messages"   -> GetMessages(u, sid)
    [] op = "clear-messages" -> ClearMessages(u, sid)
    [] op = "export"         -> ExportSession(u, sid, arg)
    [] op = "chat"           -> ChatReceive(u, sid, arg)

ValidArgument(op) ==
  CASE op = "patch-session" -> "renamed"
    [] op = "export"        -> "json"
    [] op = "chat"          -> "hello"
    [] OTHER                -> ""

\* what an export that answers 200 sends: the session, its messages as getMessages
\* returns them, and exportedAt: new Date() (the markdown and text formats end with the
\* same reading of the clock)
ExportBody(sid, format, exportedAt) ==
  [session    |-> [id |-> sid, title |-> sessions[sid].title],
   messages   |-> [i \in DOMAIN getMessages(sid) |->
                     [role      |-> getMessages(sid)[i].role,
                      content   |-> getMessages(sid)[i].content,
                      citations |-> getMessages(sid)[i].citations,
                      timestamp |-> getMessages(sid)[i].timestamp]],
   exportedAt |-> exportedAt]

\* a session route, while at most limit chat turns were started
SessionRouteUpTo(op, u, sid, arg, limit) ==
  /\ requireAuth(u)
  /\ LET o == Handle(op, u, sid, arg)
     IN /\ Len(o.turns) <= limit
        /\ sessions' = o.sessions
        /\ messages' = o.messages
        /\ turns' = o.turns
        /\ res' = o.res
        /\ IF op = "export" /\ o.res.status = 200
             THEN /\ sent.count < MaxExports
                  /\ \E exportedAt \in Clock :
                       /\ now' = exportedAt
                       /\ sent' = [sid |-> sid, format |-> arg,
                                   body |-> ExportBody(sid, arg, exportedAt),
                                   count |-> sent.count + 1]
             ELSE UNCHANGED <<now, sent>>
  /\ UNCHANGED <<users, assistants, access, nextId, files, uploads, remote, staged, client>>

SessionRoute(op, u, sid, arg) == SessionRouteUpTo(op, u, sid, arg, MaxTurns)

(* --------------- services/openai-responses.ts: the call ---------------- *)
\* as RequestBody, with the file_search tool pushed whatever the vector store
RequestBodyAlwaysSearches(userMessage, vectorStoreId, previousResponseId) ==
  [input |-> userMessage,
   tools |-> <<[type |-> "file_search", vector_store_ids |-> <<vectorStoreId>>]>>,
   previous_response_id |-> previousResponseId]

\* the body chatWithFilesearch sends to responses.create: tools only when the assistant
\* has a vector store, previous_response_id only when the session has a response id
RequestBody(userMessage, vectorStoreId, previousResponseId) ==
  [input |-> userMessage,
   tools |-> IF vectorStoreId # Null
               THEN <<[type |-> "file_search", vector_store_ids |-> <<vectorStoreId>>]>>
               ELSE <<>>,
   previous_response_id |-> previousResponseId]

\* one citation per file_citation annotation
ExtractCitations(annotations) ==
  LET cited == SelectSeq(annotations, LAMBDA a : a.type = "file_citation")
  IN [i \in 1..Len(cited) |->
        [source  |-> IF cited[i].file_id # "" THEN cited[i].file_id ELSE "Document",
         content |-> IF cited[i].quote # "" THEN cited[i].quote ELSE cited[i].text]]

\* what the service can answer: file citations only when it was given file_search
AnswerAnnotations(request) == IF request.tools = <<>> THEN {<<>>} ELSE AllAnnotationLists

\* the jsonb column citations: null, or a list
NullCitations == [kind |-> "null"]
ListCitations(list) == [kind |-> "list", items |-> list]

(* ----------------- routes.ts: the steps of a chat turn ----------------- *)
Turns == DOMAIN turns

SetTurn(t, fields) == [turns EXCEPT ![t] = fields @@ turns[t]]

\* storage.getAssistant(session.assistantId)
\* as vectorStoreOf, reading the one store of the installation (storage.getVectorStore:
\* the first there is) whatever the assistant
firstVectorStore(assistantId) ==
  LET having == {a \in DOMAIN assistants : assistants[a].openaiVectorStoreId # Null}
  IN IF having = {} THEN Null
     ELSE assistants[CHOOSE a \in having : \A b \in having : a <= b].openaiVectorStoreId

\* assistant.openaiVectorStoreId of the assistant the turn read
vectorStoreOf(assistantId) == assistants[assistantId].openaiVectorStoreId

ChatGetAssistant(t) ==
  /\ turns[t].pc = "getAssistant"
  /\ IF turns[t].assistantId \notin DOMAIN assistants
       THEN turns' = SetTurn(t, [pc |-> "done", status |-> 404])
       ELSE turns' = SetTurn(t, [pc |-> "saveUser",
                                 vectorStoreId |-> vectorStoreOf(turns[t].assistantId)])
  /\ UNCHANGED <<users, assistants, access, sessions, messages, nextId, now, files,
                 uploads, remote, res, staged, sent, client>>

\* storage.createMessage of the user's message; then chatWithFilesearch sends its request
ChatSaveUser(t, timestamp) ==
  /\ turns[t].pc = "saveUser"
  /\ messages' = createMessage(nextId.message, turns[t].sessionId, "user",
                               turns[t].message, NullCitations, timestamp)
  /\ now' = timestamp
  /\ nextId' = [nextId EXCEPT !.message = @ + 1]
  /\ turns' = SetTurn(t, [pc |-> "call", userMessage |-> nextId.message,
                          request |-> RequestBody(turns[t].message, turns[t].vectorStoreId,
                                                  turns[t].previousResponseId)])
  /\ UNCHANGED <<users, assistants, access, sessions, files, uploads, remote, res, staged,
                 sent, client>>

\* responses.create answers: chatWithFilesearch returns content, citations, responseId
ChatAnswer(t, annotations) ==
  /\ turns[t].pc = "call"
  /\ annotations \in AnswerAnnotations(turns[t].request)
  /\ turns' = SetTurn(t, [pc |-> "updateSession", responseId |-> nextId.response,
                          annotations |-> annotations,
                          citations |-> ExtractCitations(annotations)])
  /\ nextId' = [nextId EXCEPT !.response = @ + 1]
  /\ UNCHANGED <<users, assistants, access, sessions, messages, now, files, uploads,
                 remote, res, staged, sent, client>>

\* storage.updateSession(sessionId, {responseId})
ChatUpdateSession(t) ==
  /\ turns[t].pc = "updateSession"
  /\ sessions' = updateSessionResponseId(turns[t].sessionId, turns[t].responseId)
  /\ turns' = SetTurn(t, [pc |-> "saveAssistant"])
  /\ UNCHANGED <<users, assistants, access, messages, nextId, now, files, uploads, remote,
                 res, staged, sent, client>>

\* as StoredCitations, storing the list also when it is empty
StoredCitationsAsList(citations) == ListCitations(citations)

\* citations: result.citations.length > 0 ? result.citations : null
StoredCitations(citations) ==
  IF Len(citations) > 0 THEN ListCitations(citations) ELSE NullCitations

\* storage.createMessage of the answer, then res.json
ChatSaveAssistant(t, timestamp) ==
  /\ turns[t].pc = "saveAssistant"
  /\ messages' = createMessage(nextId.message, turns[t].sessionId, "assistant", "answer",
                               StoredCitations(turns[t].citations), timestamp)
  /\ now' = timestamp
  /\ nextId' = [nextId EXCEPT !.message = @ + 1]
  /\ turns' = SetTurn(t, [pc |-> "done", status |-> 200, assistantMessage |-> nextId.message])
  /\ UNCHANGED <<users, assistants, access, sessions, files, uploads, remote, res, staged,
                 sent, client>>

\* as ChatFail, with the user's message taken back
ChatFailRollsBack(t, reason) ==
  /\ turns[t].pc \in {"call", "updateSession", "saveAssistant"}
  /\ turns' = SetTurn(t, [pc |-> "failed", status |-> 500, error |-> reason])
  /\ messages' = SelectSeq(messages, LAMBDA m : m.id # turns[t].userMessage)
  /\ UNCHANGED <<users, assistants, access, sessions, nextId, now, files, uploads, remote,
                 res, staged, sent, client>>

\* as ChatFail, answering with a fixed text
ChatFailHidesReason(t, reason) ==
  /\ turns[t].pc \in {"call", "updateSession", "saveAssistant"}
  /\ turns' = SetTurn(t, [pc |-> "failed", status |-> 500, error |-> "Internal Server Error"])
  /\ UNCHANGED <<users, assistants, access, sessions, messages, nextId, now, files,
                 uploads, remote, res, staged, sent, client>>

\* the catch block: the remote call (or a store behind a later await) threw; the response
\* is 500 with error.message
ChatFail(t, reason) ==
  /\ turns[t].pc \in {"call", "updateSession", "saveAssistant"}
  /\ turns' = SetTurn(t, [pc |-> "failed", status |-> 500, error |-> reason])
  /\ UNCHANGED <<users, assistants, access, sessions, messages, nextId, now, files,
                 uploads, remote, res, staged, sent, client>>

(* ------------------------------- Next ---------------------------------- *)
Accounts ==
  \/ \E n \in Usernames, r \in RoleInputs : Signup(n, r)
  \/ \E n \in Usernames, r \in RoleInputs, k \in SecretInputs : AdminSignup(n, r, k)
  \/ \E a \in UserIds, u \in UserIdInputs, r \in RoleInputs : UpdateUserRole(a, u, r)

Administration ==
  \/ \E a \in UserIds, v \in VectorStoreInputs : CreateAssistant(a, v)
  \/ \E a \in UserIds, i \in AssistantIdInputs, o \in DeleteOutcomes : DeleteAssistant(a, i, o)
  \/ \E a \in UserIds, i \in AssistantIdInputs, v \in BOOLEAN : UpdateAssistant(a, i, v)
  \/ \E a \in UserIds, i \in AssistantIdInputs, f \in FileIdInputs, o \in RemoveOutcomes :
       DeleteFile(a, i, f, o)
  \/ \E a \in UserIds, u \in UserIds, i \in AssistantIdInputs : GrantAccess(a, u, i)
  \/ \E a \in UserIds, u \in UserIds, i \in AssistantIdInputs : RevokeAccess(a, u, i)

UploadSteps ==
  \/ \E a \in UserIds, i \in 1..nextId.assistant : UploadReceive(a, i)
  \/ \E k \in Uploads : UploadFile(k)
  \/ \E k \in Uploads : AttachRetrieve(k)
  \/ \E k \in Uploads : AttachCreateVectorStore(k)
  \/ \E k \in Uploads : AttachLink(k)
  \/ \E k \in Uploads : AttachAddFile(k)
  \/ \E k \in Uploads : UploadCreateFile(k)
  \/ \E k \in Uploads : UploadFail(k)

SessionRoutes ==
  \/ \E u \in UserIds, i \in {Null} \cup AssistantIdInputs : CreateSession(u, i)
  \/ \E op \in SessionOps, u \in UserIds, sid \in SessionIdInputs :
       \E arg \in Arguments(op) : SessionRoute(op, u, sid, arg)

ChatSteps ==
  \/ \E t \in Turns : ChatGetAssistant(t)
  \/ \E t \in Turns, ts \in Clock : ChatSaveUser(t, ts)
  \/ \E t \in Turns, a \in AllAnnotationLists : ChatAnswer(t, a)
  \/ \E t \in Turns : ChatUpdateSession(t)
  \/ \E t \in Turns, ts \in Clock : ChatSaveAssistant(t, ts)
  \/ \E t \in Turns, r \in FailureReasons : ChatFail(t, r)

\* the longest chunk the network delivers at once
MaxChunk == Len(ContentEvent("a")) * MaxEvents + Len(DoneEvent)

ClientSteps ==
  \/ ClientSend
  \/ ClientFail
  \/ ClientJson
  \/ \E events \in Streams(MaxEvents), sentinel \in BOOLEAN : ClientStream(events, sentinel)
  \/ \E n \in 1..MaxChunk : ClientRead(n)
  \/ ClientEnd

\* every request of the model, with every input
Next ==
  Accounts \/ Administration \/ UploadSteps \/ SessionRoutes \/ ChatSteps \/ ClientSteps

Spec == Init /\ [][Next]_vars

\* no chat turn is between its checks and its response
Quiet == \A t \in Turns : turns[t].pc \in {"done", "failed"}

\* the conversation engine: one operator account, its assistant and sessions, and
\* concurrent chat turns (the store never throws, the clock moves between reads)
NextConverse ==
  \/ AdminSignup("alice", "admin", ADMIN_SECRET)
  \/ \E a \in UserIds : assistants = <<>> /\ CreateAssistant(a, Null)
  \/ \E u \in UserIds, i \in AssistantIdInputs : CreateSession(u, i)
  \/ \E u \in UserIds, sid \in DOMAIN sessions : SessionRoute("chat", u, sid, "hello")
  \/ \E t \in Turns : ChatGetAssistant(t)
  \/ \E t \in Turns : ChatSaveUser(t, now + 1)
  \/ \E t \in Turns, a \in AnnotationLists : ChatAnswer(t, a)
  \/ \E t \in Turns : ChatUpdateSession(t)
  \/ \E t \in Turns : ChatSaveAssistant(t, now + 1)
  \/ \E t \in Turns : turns[t].pc = "call" /\ ChatFail(t, "timeout")

SpecConverse == Init /\ [][NextConverse]_vars

\* failing chat turns: the sessions of one assistant, where the handler may throw at the
\* remote call and at each await after it
NextFailure ==
  \/ AdminSignup("alice", "admin", ADMIN_SECRET)
  \/ \E a \in UserIds : assistants = <<>> /\ CreateAssistant(a, Null)
  \/ \E u \in UserIds, i \in AssistantIdInputs : CreateSession(u, i)
  \/ \E u \in UserIds, sid \in DOMAIN sessions : SessionRoute("chat", u, sid, "hello")
  \/ \E t \in Turns : ChatGetAssistant(t)
  \/ \E t \in Turns : ChatSaveUser(t, now + 1)
  \/ \E t \in Turns : ChatAnswer(t, <<>>)
  \/ \E t \in Turns : ChatUpdateSession(t)
  \/ \E t \in Turns : ChatSaveAssistant(t, now + 1)
  \/ \E t \in Turns : ChatFail(t, "timeout")

SpecFailure == Init /\ [][NextFailure]_vars

\* the access guard of POST /api/sessions: an operator, a plain user, grants
NextAccess ==
  \/ AdminSignup("alice", "admin", ADMIN_SECRET)
  \/ Signup("bob", "")
  \/ \E a \in UserIds : CreateAssistant(a, Null)
  \/ \E a \in UserIds, u \in UserIds, i \in AssistantIdInputs : GrantAccess(a, u, i)
  \/ \E a \in UserIds, u \in UserIds, i \in AssistantIdInputs : RevokeAccess(a, u, i)
  \/ \E u \in UserIds, i \in {Null} \cup AssistantIdInputs : CreateSession(u, i)

SpecAccess == Init /\ [][NextAccess]_vars

\* session ownership: an operator, then a plain user, their sessions, and the session
\* routes that write, one request at a time
NextOwnership ==
  \/ Quiet /\ AdminSignup("alice", "admin", ADMIN_SECRET)
  \/ Quiet /\ UserIds # {} /\ Signup("bob", "")
  \/ \E a \in UserIds : Quiet /\ assistants = <<>> /\ CreateAssistant(a, Null)
  \/ \E u \in UserIds, i \in {Null} \cup AssistantIdInputs : Quiet /\ CreateSession(u, i)
  \/ \E op \in SessionOps \ {"get-messages", "export"}, u \in UserIds, sid \in SessionIdInputs :
       Quiet /\ SessionRoute(op, u, sid, ValidArgument(op))
  \/ \E t \in Turns : ChatGetAssistant(t)
  \/ \E t \in Turns : ChatSaveUser(t, now + 1)
  \/ \E t \in Turns : ChatAnswer(t, <<>>)
  \/ \E t \in Turns : ChatUpdateSession(t)
  \/ \E t \in Turns : ChatSaveAssistant(t, now + 1)

SpecOwnership == Init /\ [][NextOwnership]_vars

\* the knowledge base: an operator, its assistant, concurrent uploads, and chat turns up
\* to the request they send
NextKnowledge ==
  \/ AdminSignup("alice", "admin", ADMIN_SECRET)
  \/ \E a \in UserIds : assistants = <<>> /\ CreateAssistant(a, Null)
  \/ \E a \in UserIds, i \in DOMAIN assistants : UploadReceive(a, i)
  \/ \E k \in Uploads : UploadFile(k)
  \/ \E k \in Uploads : AttachRetrieve(k)
  \/ \E k \in Uploads : AttachCreateVectorStore(k)
  \/ \E k \in Uploads : AttachLink(k)
  \/ \E k \in Uploads : AttachAddFile(k)
  \/ \E k \in Uploads : UploadCreateFile(k)
  \/ \E u \in UserIds, i \in AssistantIdInputs : CreateSession(u, i)
  \/ \E u \in UserIds, sid \in DOMAIN sessions : SessionRoute("chat", u, sid, "hello")
  \/ \E t \in Turns : ChatGetAssistant(t)
  \/ \E t \in Turns : ChatSaveUser(t, now + 1)

SpecKnowledge == Init /\ [][NextKnowledge]_vars

\* no upload is between its checks and its response
UploadsSettled == \A k \in Uploads : uploads[k].pc \in {"done", "failed"}

\* teardown: an operator sets up its assistants and their grants, then uploads documents
\* (one at a time) and uses the two delete routes, with every outcome of the remote
\* service
NextTeardown ==
  \/ AdminSignup("alice", "admin", ADMIN_SECRET)
  \/ \E a \in UserIds : staged = {} /\ CreateAssistant(a, Null)
  \/ \E a \in UserIds, u \in UserIds, i \in DOMAIN assistants :
       staged = {} /\ GrantAccess(a, u, i)
  \/ \E a \in UserIds, i \in DOMAIN assistants : UploadsSettled /\ UploadReceive(a, i)
  \/ \E k \in Uploads : UploadFile(k)
  \/ \E k \in Uploads : AttachRetrieve(k)
  \/ \E k \in Uploads : AttachCreateVectorStore(k)
  \/ \E k \in Uploads : AttachLink(k)
  \/ \E k \in Uploads : AttachAddFile(k)
  \/ \E k \in Uploads : UploadCreateFile(k)
  \/ \E a \in UserIds, i \in AssistantIdInputs, o \in DeleteOutcomes :
       UploadsSettled /\ DeleteAssistant(a, i, o)
  \/ \E a \in UserIds, i \in AssistantIdInputs, f \in FileIdInputs, o \in RemoveOutcomes :
       UploadsSettled /\ DeleteFile(a, i, f, o)

SpecTeardown == Init /\ [][NextTeardown]_vars

\* the cascade of an assistant's deletion: assistants, their grants and their documents
NextCascade ==
  \/ AdminSignup("alice", "admin", ADMIN_SECRET)
  \/ \E a \in UserIds : staged = {} /\ CreateAssistant(a, Null)
  \/ \E a \in UserIds, u \in UserIds, i \in DOMAIN assistants :
       staged = {} /\ GrantAccess(a, u, i)
  \/ \E a \in UserIds, i \in DOMAIN assistants : UploadsSettled /\ UploadReceive(a, i)
  \/ \E k \in Uploads : UploadFile(k)
  \/ \E k \in Uploads : AttachRetrieve(k)
  \/ \E k \in Uploads : AttachCreateVectorStore(k)
  \/ \E k \in Uploads : AttachLink(k)
  \/ \E k \in Uploads : AttachAddFile(k)
  \/ \E k \in Uploads : UploadCreateFile(k)
  \/ \E a \in UserIds, i \in AssistantIdInputs, o \in DeleteOutcomes :
       UploadsSettled /\ DeleteAssistant(a, i, o)

SpecCascade == Init /\ [][NextCascade]_vars

\* the documents of several assistants and the route that deletes one of them
NextDocuments ==
  \/ AdminSignup("alice", "admin", ADMIN_SECRET)
  \/ \E a \in UserIds : staged = {} /\ CreateAssistant(a, Null)
  \/ \E a \in UserIds, i \in DOMAIN assistants : UploadsSettled /\ UploadReceive(a, i)
  \/ \E k \in Uploads : UploadFile(k)
  \/ \E k \in Uploads : AttachRetrieve(k)
  \/ \E k \in Uploads : AttachCreateVectorStore(k)
  \/ \E k \in Uploads : AttachLink(k)
  \/ \E k \in Uploads : AttachAddFile(k)
  \/ \E k \in Uploads : UploadCreateFile(k)
  \/ \E a \in UserIds, i \in 1..nextId.assistant, f \in FileIdInputs, o \in RemoveOutcomes :
       UploadsSettled /\ DeleteFile(a, i, f, o)

SpecDocuments == Init /\ [][NextDocuments]_vars

\* sessions whose assistant is deleted: an operator, its assistants, sessions with chat
\* turns, and DELETE /api/assistants/:id between the turns
NextOrphan ==
  \/ AdminSignup("alice", "admin", ADMIN_SECRET)
  \/ \E a \in UserIds : CreateAssistant(a, Null)
  \/ \E u \in UserIds, i \in AssistantIdInputs : CreateSession(u, i)
  \/ \E u \in UserIds, sid \in DOMAIN sessions : SessionRoute("chat", u, sid, "hello")
  \/ \E t \in Turns : ChatGetAssistant(t)
  \/ \E t \in Turns : ChatSaveUser(t, now + 1)
  \/ \E t \in Turns : ChatAnswer(t, <<>>)
  \/ \E t \in Turns : ChatUpdateSession(t)
  \/ \E t \in Turns : ChatSaveAssistant(t, now + 1)
  \/ \E a \in UserIds, i \in AssistantIdInputs, o \in DeleteOutcomes :
       Quiet /\ DeleteAssistant(a, i, o)

SpecOrphan == Init /\ [][NextOrphan]_vars

\* the history of a session: chat turns, one at a time, whose two writes read a clock
\* that may not have moved since the last write, and the two routes that remove messages
NextHistory ==
  \/ AdminSignup("alice", "admin", ADMIN_SECRET)
  \/ \E a \in UserIds : assistants = <<>> /\ CreateAssistant(a, Null)
  \/ \E u \in UserIds, i \in AssistantIdInputs : CreateSession(u, i)
  \/ \E op \in {"chat", "clear-messages", "delete-session"}, u \in UserIds,
        sid \in DOMAIN sessions : Quiet /\ SessionRoute(op, u, sid, ValidArgument(op))
  \/ \E t \in Turns : ChatGetAssistant(t)
  \/ \E t \in Turns, ts \in Clock : ChatSaveUser(t, ts)
  \/ \E t \in Turns : ChatAnswer(t, <<>>)
  \/ \E t \in Turns : ChatUpdateSession(t)
  \/ \E t \in Turns, ts \in Clock : ChatSaveAssistant(t, ts)

SpecHistory == Init /\ [][NextHistory]_vars

\* exports: the sessions of one assistant, their chat turns one at a time, and the export
\* route in every format the model knows
NextExport ==
  \/ AdminSignup("alice", "admin", ADMIN_SECRET)
  \/ \E a \in UserIds : assistants = <<>> /\ CreateAssistant(a, Null)
  \/ \E u \in UserIds, i \in AssistantIdInputs : CreateSession(u, i)
  \/ \E u \in UserIds, sid \in DOMAIN sessions :
       Quiet /\ SessionRoute("chat", u, sid, "hello")
  \/ \E u \in UserIds, sid \in SessionIdInputs, format \in Arguments("export") :
       SessionRoute("export", u, sid, format)
  \/ \E t \in Turns : ChatGetAssistant(t)
  \/ \E t \in Turns : ChatSaveUser(t, now + 1)
  \/ \E t \in Turns : ChatAnswer(t, <<>>)
  \/ \E t \in Turns : ChatUpdateSession(t)
  \/ \E t \in Turns : ChatSaveAssistant(t, now + 1)

SpecExport == Init /\ [][NextExport]_vars

\* the chat client alone: every stream of at most MaxEvents deltas, with and without
\* the sentinel, delivered in every chunking
SpecStream == Init /\ [][ClientSteps]_vars

\* accounts and roles: the two signup routes and the role update, with every body
SpecRoles == Init /\ [][Accounts]_vars

\* citations: the sessions of one assistant with a vector store, turns one at a time, and
\* every list of annotations the answer may carry
NextCitations ==
  \/ AdminSignup("alice", "admin", ADMIN_SECRET)
  \/ \E a \in UserIds : assistants = <<>> /\ CreateAssistant(a, -1)
  \/ \E u \in UserIds, i \in AssistantIdInputs : CreateSession(u, i)
  \/ \E u \in UserIds, sid \in DOMAIN sessions : Quiet /\ SessionRoute("chat", u, sid, "hello")
  \/ \E t \in Turns : ChatGetAssistant(t)
  \/ \E t \in Turns : ChatSaveUser(t, now + 1)
  \/ \E t \in Turns, a \in AllAnnotationLists : ChatAnswer(t, a)
  \/ \E t \in Turns : ChatUpdateSession(t)
  \/ \E t \in Turns : ChatSaveAssistant(t, now + 1)

SpecCitations == Init /\ [][NextCitations]_vars

\* entitlement: an operator, a plain user, one assistant that is granted, revoked and
\* switched off between chat turns, and the user's sessions and turns on it
NextEntitlement ==
  \/ AdminSignup("alice", "admin", ADMIN_SECRET)
  \/ Signup("bob", "")
  \/ \E a \in UserIds : assistants = <<>> /\ CreateAssistant(a, Null)
  \/ \E a \in UserIds, u \in UserIds, i \in DOMAIN assistants : Quiet /\ GrantAccess(a, u, i)
  \/ \E a \in UserIds, u \in UserIds, i \in DOMAIN assistants : Quiet /\ RevokeAccess(a, u, i)
  \/ \E a \in UserIds, i \in DOMAIN assistants, v \in BOOLEAN :
       Quiet /\ UpdateAssistant(a, i, v)
  \/ \E u \in UserIds, i \in AssistantIdInputs : CreateSession(u, i)
  \/ \E u \in UserIds, sid \in DOMAIN sessions : Quiet /\ SessionRoute("chat", u, sid, "hello")
  \/ \E t \in Turns : ChatGetAssistant(t)
  \/ \E t \in Turns : ChatSaveUser(t, now + 1)
  \/ \E t \in Turns : ChatAnswer(t, <<>>)
  \/ \E t \in Turns : ChatUpdateSession(t)
  \/ \E t \in Turns : ChatSaveAssistant(t, now + 1)

SpecEntitlement == Init /\ [][NextEntitlement]_vars

\* outages: the sessions of one assistant and their turns, one at a time, where the
\* remote call and every await after it may throw, for one reason or another
NextOutage ==
  \/ AdminSignup("alice", "admin", ADMIN_SECRET)
  \/ \E a \in UserIds : assistants = <<>> /\ CreateAssistant(a, Null)
  \/ \E u \in UserIds, i \in AssistantIdInputs : CreateSession(u, i)
  \/ \E u \in UserIds, sid \in DOMAIN sessions : Quiet /\ SessionRoute("chat", u, sid, "hello")
  \/ \E t \in Turns : ChatGetAssistant(t)
  \/ \E t \in Turns : ChatSaveUser(t, now + 1)
  \/ \E t \in Turns : ChatAnswer(t, <<>>)
  \/ \E t \in Turns : ChatUpdateSession(t)
  \/ \E t \in Turns : ChatSaveAssistant(t, now + 1)
  \/ \E t \in Turns, r \in FailureReasons : ChatFail(t, r)

SpecOutage == Init /\ [][NextOutage]_vars

\* clearing: the sessions of one assistant, their chat turns one at a time, and the
\* route that clears the history of a session, at any moment
NextClearing ==
  \/ AdminSignup("alice", "admin", ADMIN_SECRET)
  \/ \E a \in UserIds : assistants = <<>> /\ CreateAssistant(a, Null)
  \/ \E u \in UserIds, i \in AssistantIdInputs : CreateSessionUpTo(u, i, MaxClearingSessions)
  \/ \E u \in UserIds, sid \in DOMAIN sessions :
       Quiet /\ SessionRouteUpTo("chat", u, sid, "hello", MaxClearingTurns)
  \/ \E u \in UserIds, sid \in DOMAIN sessions :
       SessionRouteUpTo("clear-messages", u, sid, "", MaxClearingTurns)
  \/ \E t \in Turns : ChatGetAssistant(t)
  \/ \E t \in Turns : ChatSaveUser(t, now + 1)
  \/ \E t \in Turns : ChatAnswer(t, <<>>)
  \/ \E t \in Turns : ChatUpdateSession(t)
  \/ \E t \in Turns : ChatSaveAssistant(t, now + 1)

SpecClearing == Init /\ [][NextClearing]_vars

\* references: an operator's assistant, its uploads and its sessions, where the assistant
\* and the sessions are deleted while uploads and chat turns are in progress
NextReferences ==
  \/ AdminSignup("alice", "admin", ADMIN_SECRET)
  \/ \E a \in UserIds : assistants = <<>> /\ CreateAssistant(a, Null)
  \/ \E a \in UserIds, i \in DOMAIN assistants : DeleteAssistant(a, i, "deleted")
  \/ \E a \in UserIds, i \in DOMAIN assistants : UploadsSettled /\ UploadReceive(a, i)
  \/ \E k \in Uploads : UploadFile(k)
  \/ \E k \in Uploads : AttachRetrieve(k)
  \/ \E k \in Uploads : AttachCreateVectorStore(k)
  \/ \E k \in Uploads : AttachLink(k)
  \/ \E k \in Uploads : AttachAddFile(k)
  \/ \E k \in Uploads : UploadCreateFile(k)
  \/ \E u \in UserIds, i \in DOMAIN assistants : CreateSession(u, i)
  \/ \E op \in {"chat", "delete-session"}, u \in UserIds, sid \in DOMAIN sessions :
       SessionRoute(op, u, sid, ValidArgument(op))
  \/ \E t \in Turns : ChatGetAssistant(t)
  \/ \E t \in Turns : ChatSaveUser(t, now + 1)
  \/ \E t \in Turns : ChatAnswer(t, <<>>)
  \/ \E t \in Turns : ChatUpdateSession(t)
  \/ \E t \in Turns : ChatSaveAssistant(t, now + 1)

SpecReferences == Init /\ [][NextReferences]_vars

\* the turns that have not yet sent their request to the remote service
Reading == {t \in Turns : turns[t].pc \in {"getAssistant", "saveUser"}}

\* isolation of the knowledge bases: an operator creates assistants with and without a
\* vector store handle and uploads a document to one of them; then sessions and
\* chat turns (one at a time) up to the request they send, with edits and deletions of the
\* assistants between a turn's steps
NextIsolation ==
  \/ AdminSignup("alice", "admin", ADMIN_SECRET)
  \/ \E a \in UserIds, v \in VectorStoreInputs : staged = {} /\ CreateAssistant(a, v)
  \/ \E a \in UserIds, i \in DOMAIN assistants :
       sessions = <<>> /\ staged = {} /\ UploadReceive(a, i)
  \/ \E k \in Uploads : UploadFile(k)
  \/ \E k \in Uploads : AttachRetrieve(k)
  \/ \E k \in Uploads : AttachCreateVectorStore(k)
  \/ \E k \in Uploads : AttachLink(k)
  \/ \E k \in Uploads : AttachAddFile(k)
  \/ \E k \in Uploads : UploadCreateFile(k)
  \/ \E a \in UserIds, i \in DOMAIN assistants, v \in BOOLEAN :
       Reading # {} /\ UpdateAssistant(a, i, v)
  \/ \E a \in UserIds, i \in DOMAIN assistants :
       Reading # {} /\ DeleteAssistant(a, i, "deleted")
  \/ \E u \in UserIds, i \in DOMAIN assistants :
       sessions = <<>> /\ UploadsSettled /\ CreateSession(u, i)
  \/ \E u \in UserIds, sid \in DOMAIN sessions :
       Reading = {} /\ SessionRoute("chat", u, sid, "hello")
  \/ \E t \in Turns : ChatGetAssistant(t)
  \/ \E t \in Turns : ChatSaveUser(t, now + 1)

SpecIsolation == Init /\ [][NextIsolation]_vars

\* indexing failures: the uploads of one assistant, concurrent, where every call to the
\* remote service may throw
NextIndexing ==
  \/ AdminSignup("alice", "admin", ADMIN_SECRET)
  \/ \E a \in UserIds : assistants = <<>> /\ CreateAssistant(a, Null)
  \/ \E a \in UserIds, i \in 1..nextId.assistant : UploadReceive(a, i)
  \/ \E k \in Uploads : UploadFile(k)
  \/ \E k \in Uploads : AttachRetrieve(k)
  \/ \E k \in Uploads : AttachCreateVectorStore(k)
  \/ \E k \in Uploads : AttachLink(k)
  \/ \E k \in Uploads : AttachAddFile(k)
  \/ \E k \in Uploads : UploadCreateFile(k)
  \/ \E k \in Uploads : UploadFail(k)

SpecIndexing == Init /\ [][NextIndexing]_vars

(* ------------------------------ properties ----------------------------- *)
\* the turns of session s that answered 200
SuccessfulTurns(s) ==
  {t \in Turns : turns[t].sessionId = s /\ turns[t].pc = "done" /\ turns[t].status = 200}

\* the successful turn of s that completed last: the one whose answer was saved last
LastCompleted(s) ==
  CHOOSE t \in SuccessfulTurns(s) :
    \A o \in SuccessfulTurns(s) : turns[o].assistantMessage <= turns[t].assistantMessage

\* the response id of the most recent successful turn of s, if any
MostRecentToken(s) ==
  IF SuccessfulTurns(s) = {} THEN Null ELSE turns[LastCompleted(s)].responseId

\* turn t has read session.responseId and has neither written the new one nor failed
InFlight(t) == turns[t].pc \in {"getAssistant", "saveUser", "call", "updateSession"}

\* every turn of session s has answered
Settled(s) == \A t \in Turns : turns[t].sessionId = s => turns[t].pc \in {"done", "failed"}

\* C1: once every chat turn of a session has answered, and at least one answered 200, the
\* session's stored responseId is the response id of the successful turn that completed
\* last, also when turns ran concurrently.
StoredTokenIsLastTurns ==
  \A s \in DOMAIN sessions :
    (Settled(s) /\ SuccessfulTurns(s) # {}) =>
      sessions[s].responseId = turns[LastCompleted(s)].responseId

\* C2: no two chat turns of one session are at the same time between their read of
\* session.responseId and their write of the new responseId (or their failure).
OneTurnInFlight ==
  \A t1 \in Turns, t2 \in Turns :
    (t1 # t2 /\ turns[t1].sessionId = turns[t2].sessionId /\ InFlight(t1)) => ~InFlight(t2)

\* upload k answered with the file record
Uploaded(k) == uploads[k].pc = "done" /\ uploads[k].status = 200

\* handle is a remote index that holds the file of upload k
Holds(handle, k) ==
  /\ handle # Null
  /\ handle \in DOMAIN remote.vectorStores
  /\ uploads[k].openaiFileId \in remote.vectorStores[handle].files

\* C3: once an upload to an assistant has answered with the file record, the local
\* assistant's openaiVectorStoreId is non-null and is the remote index that holds the file,
\* and a chat turn that reads the assistant afterwards passes that handle on.
UploadedHandleServesChat ==
  [][/\ \A k \in DOMAIN uploads' :
          Uploaded(k)' => Holds(assistants[uploads[k].assistantId].openaiVectorStoreId, k)'
     /\ \A t \in Turns, k \in Uploads :
          (/\ Uploaded(k)
           /\ uploads[k].assistantId = turns[t].assistantId
           /\ turns[t].pc = "getAssistant"
           /\ turns'[t].pc = "saveUser")
          => Holds(turns[t].vectorStoreId, k)']_vars

\* the remote vector stores an upload has linked to remote assistant a, or found linked
LinkedStores(a) ==
  {uploads[k].vectorStoreId : k \in {u \in Uploads :
      /\ uploads[u].openaiAssistantId = a
      /\ uploads[u].pc \in {"addFile", "createFile", "done"}}}

\* C4: whatever the interleaving of uploads to one assistant, at most one remote vector
\* store is ever created for and linked to it.
OneVectorStorePerAssistant ==
  \A a \in DOMAIN remote.assistants :
    /\ Cardinality(LinkedStores(a)) <= 1
    /\ Cardinality({v \in DOMAIN remote.vectorStores : remote.vectorStores[v].name = a}) <= 1

\* C5: for every session route, every user and every argument, the answer for a session
\* of another user is the answer for a session that does not exist, neither changes the
\* sessions, the messages or the chat turns started, and for a request that carries its
\* body (a chat message) the answer is 404 "Session not found".
OwnershipIsHidden ==
  \A op \in SessionOps, u \in UserIds, s1 \in DOMAIN sessions :
    \A s2 \in SessionIdInputs \ DOMAIN sessions, arg \in Arguments(op) :
      sessions[s1].userId # u =>
        LET o1 == Handle(op, u, s1, arg)
            o2 == Handle(op, u, s2, arg)
        IN /\ o1.res.status = o2.res.status
           /\ o1.res.message = o2.res.message
           /\ \A o \in {o1, o2} :
                o.sessions = sessions /\ o.messages = messages /\ o.turns = turns
           /\ (op = "chat" => arg # "") =>
                o1.res = NotFound(op, u, s1) /\ o2.res = NotFound(op, u, s2)

\* C5 happens: a session route has just answered 404 to a user about a session of another
\* user, which holds messages
OwnershipIsHiddenWitness ==
  /\ res.op \in SessionOps
  /\ res.status = 404
  /\ res.message = "Session not found"
  /\ res.sid \in DOMAIN sessions
  /\ sessions[res.sid].userId # res.user
  /\ getMessages(res.sid) # <<>>

\* an access grant (userId, assistantId) exists
Granted(userId, assistantId) ==
  \E i \in DOMAIN access : access[i] = [userId |-> userId, assistantId |-> assistantId]

\* C6: POST /api/sessions for an assistant creates a session only for an admin or a user
\* with a grant for that assistant; for anyone else it answers 403 and creates nothing.
SessionNeedsAccess ==
  \A u \in UserIds, a \in AssistantIdInputs :
    LET o == PostSession(u, a)
    IN /\ o.sessions # sessions => (users[u].role = "admin" \/ Granted(u, a))
       /\ ~(users[u].role = "admin" \/ Granted(u, a)) =>
            o.res.status = 403 /\ o.sessions = sessions

\* C6 happens: a user who is no admin holds a session for an assistant, created under a
\* grant, and has just been answered 403
SessionNeedsAccessWitness ==
  /\ res.op = "create-session"
  /\ res.status = 403
  /\ \E s \in DOMAIN sessions :
       /\ sessions[s].userId = res.user
       /\ sessions[s].assistantId # Null
       /\ users[sessions[s].userId].role # "admin"

\* the history of the session of turn t holds the user's message of t
UserMessageKept(t) ==
  \E i \in DOMAIN getMessages(turns[t].sessionId) :
    LET m == getMessages(turns[t].sessionId)[i]
    IN m.id = turns[t].userMessage /\ m.role = "user" /\ m.content = turns[t].message

\* C7: from the moment a chat turn calls the remote service, also after that call has
\* failed, the user's message of the turn is in the history of the session.
UserMessageIsWrittenAhead ==
  \A t \in Turns :
    turns[t].pc \in {"call", "updateSession", "saveAssistant", "failed"}
      \/ (turns[t].pc = "done" /\ turns[t].status = 200)
    => UserMessageKept(t)

\* C7 happens: the remote call of one turn failed, a later step of another turn failed,
\* and the user's message of each is in the history
WrittenAheadWitness ==
  \E t1 \in Turns, t2 \in Turns :
    /\ turns[t1].pc = "failed" /\ turns[t1].responseId = Null
    /\ turns[t2].pc = "failed" /\ turns[t2].responseId # Null
    /\ UserMessageKept(t1) /\ UserMessageKept(t2)

\* the messages are in ascending order of timestamp
Ordered(history) ==
  \A i \in DOMAIN history, j \in DOMAIN history :
    i < j => history[i].timestamp <= history[j].timestamp

\* C8: once the chat turns of a session have answered, two or more of them with 200,
\* exactly one of their response ids is the session's responseId, and the user message of
\* each is in getMessages, which is ordered by timestamp.
ConcurrentTurnsKeepBoth ==
  \A s \in DOMAIN sessions :
    (Settled(s) /\ Cardinality(SuccessfulTurns(s)) >= 2) =>
      /\ Cardinality({t \in SuccessfulTurns(s) :
                        turns[t].responseId = sessions[s].responseId}) = 1
      /\ \A t \in SuccessfulTurns(s) : UserMessageKept(t)
      /\ Ordered(getMessages(s))

\* C8 happens: two turns of one session that both read the session before either wrote
\* to it have both answered 200
ConcurrentTurnsWitness ==
  \E t1 \in Turns, t2 \in Turns :
    /\ t1 # t2
    /\ turns[t1].sessionId = turns[t2].sessionId
    /\ Settled(turns[t1].sessionId)
    /\ {t1, t2} \subseteq SuccessfulTurns(turns[t1].sessionId)
    /\ turns[t1].previousResponseId = Null
    /\ turns[t2].previousResponseId = Null

\* the response ids a request of session s may carry as that of the most recent successful
\* turn: that of the turn that answered 200 last, or that of a turn whose remote call has
\* returned and whose answer is being stored
RecentTokens(s) ==
  {MostRecentToken(s)} \cup
  {turns[t].responseId : t \in {o \in Turns : /\ turns[o].sessionId = s
                                               /\ turns[o].pc \in {"updateSession",
                                                                   "saveAssistant"}}}

\* C9: a session is created without responseId, and the request a chat turn sends carries
\* as previous_response_id the response id of the most recent successful turn of the
\* session, none when no turn has succeeded.
TurnsChainTokens ==
  [][/\ \A s \in DOMAIN sessions' \ DOMAIN sessions : sessions'[s].responseId = Null
     /\ \A t \in Turns :
          (turns[t].pc = "saveUser" /\ turns'[t].pc = "call") =>
            turns'[t].request.previous_response_id \in RecentTokens(turns[t].sessionId)]_vars

\* citations of the body res.json sends: result.citations || []
ResponseCitations(t) == turns[t].citations

\* C10: a chat turn on an assistant without vector store sends a request without tools,
\* and when it answers 200 its citations are the empty list and the session has a
\* responseId.
NoKnowledgeBaseChat ==
  \A t \in Turns :
    (turns[t].vectorStoreId = Null /\ turns[t].pc \notin {"getAssistant", "saveUser"}
       /\ ~(turns[t].pc = "done" /\ turns[t].status = 404)) =>
      /\ turns[t].request.tools = <<>>
      /\ (turns[t].pc = "done" /\ turns[t].status = 200) =>
           /\ ResponseCitations(t) = <<>>
           /\ sessions[turns[t].sessionId].responseId # Null

\* C10 happens: a turn on an assistant without vector store has answered 200
NoKnowledgeBaseWitness ==
  \E t \in Turns :
    /\ assistants[turns[t].assistantId].openaiVectorStoreId = Null
    /\ turns[t].pc = "done" /\ turns[t].status = 200
    /\ turns[t].request.tools = <<>>

(* ------------------------- deleting a document ------------------------- *)
\* C11: DELETE /api/assistants/:id/files/:fileId removes a document only when the
\* document's assistantId is the assistant of the path; for a document of another
\* assistant it answers the ownership error, and the document records, the staged files
\* and the vector stores stay as they were -- for every assistant, document and outcome
\* of the remote service.
DeleteFileKeepsToItsAssistant ==
  \A id \in 1..nextId.assistant, fileId \in FileIdInputs, outcome \in RemoveOutcomes :
    LET o == DeleteFileOutcome(id, fileId, outcome)
        touched == \/ o.files # files
                   \/ o.staged # staged
                   \/ o.vectorStores # remote.vectorStores
    IN /\ touched => fileId \in DOMAIN files /\ files[fileId].assistantId = id
       /\ (id \in DOMAIN assistants /\ fileId \in DOMAIN files
             /\ files[fileId].assistantId # id) =>
            o.status = 403 /\ ~touched

\* a document of one assistant was asked for through another assistant, and is still
\* there, with its staged file and its entry in the vector store
DeleteFileKeepsToItsAssistantWitness ==
  /\ res.op = "delete-file" /\ res.status = 403
  /\ res.sid \in DOMAIN files
  /\ files[res.sid].filename \in staged
  /\ \E v \in DOMAIN remote.vectorStores :
       files[res.sid].openaiFileId \in remote.vectorStores[v].files
  /\ \E id \in DOMAIN assistants : files[res.sid].assistantId # id

(* ------------------------- best-effort teardown ------------------------ *)
\* C12: when the remote side of a deletion fails, the local deletion still proceeds and
\* the caller is not answered an error: every answer to DELETE /api/assistants/:id for an
\* assistant that exists is a success that leaves no record of it, and every answer to
\* DELETE /api/assistants/:id/files/:fileId other than a missing or foreign document is
\* a success that leaves no record of the document.
RemoteTeardownIsBestEffort ==
  [][/\ (res'.op = "delete-assistant" /\ res'.sid \in DOMAIN assistants) =>
          (res'.status = 200 /\ res'.sid \notin DOMAIN assistants')
     /\ (res'.op = "delete-file" /\ res'.status \notin {403, 404}) =>
          (res'.status = 200 /\ res'.sid \notin DOMAIN files')]_vars

(* --------------------------- indexing failures ------------------------- *)
\* C13: an upload whose file reached the remote service and whose attachment to the
\* assistant's vector store then failed still leaves a document record for that file,
\* so the document shows in the assistant's file list.
FailedIndexingIsRecorded ==
  \A k \in Uploads :
    (uploads[k].pc = "failed" /\ uploads[k].openaiFileId # Null) =>
      \E f \in DOMAIN files : /\ files[f].assistantId = uploads[k].assistantId
                              /\ files[f].openaiFileId = uploads[k].openaiFileId

(* ------------------------ the cascade of a deletion -------------------- *)
\* the grants that name assistant b, in the order of the store
GrantsOf(store, b) == SelectSeq(store, LAMBDA g : g.assistantId = b)

\* C14: after deleteAssistant(a) storage holds no document and no grant with assistantId
\* a, and the documents and the grants of every other assistant are as they were.
DeleteAssistantCascades ==
  \A a \in DOMAIN assistants :
    LET o == deleteAssistant(a)
    IN /\ a \notin DOMAIN o.assistants
       /\ \A f \in DOMAIN o.files : o.files[f].assistantId # a
       /\ \A g \in DOMAIN o.access : o.access[g].assistantId # a
       /\ \A f \in DOMAIN files :
            files[f].assistantId # a => f \in DOMAIN o.files /\ o.files[f] = files[f]
       /\ \A b \in (1..nextId.assistant) \ {a} : GrantsOf(o.access, b) = GrantsOf(access, b)

\* an assistant that had a document was deleted, and a document and a grant of another
\* assistant are still in storage
DeleteAssistantCascadesWitness ==
  /\ res.op = "delete-assistant" /\ res.status = 200
  /\ \E k \in Uploads : uploads[k].pc = "done" /\ uploads[k].assistantId = res.sid
  /\ \A f \in DOMAIN files : files[f].assistantId # res.sid
  /\ \E f \in DOMAIN files : files[f].assistantId \in DOMAIN assistants
  /\ \E g \in DOMAIN access : access[g].assistantId \in DOMAIN assistants

(* -------------------- sessions of a deleted assistant ------------------ *)
\* C15: when an assistant is deleted, every session that referenced it is still there
\* with all its messages and its assistantId is null, so that a later chat turn on it is
\* answered "No assistant selected for this session" and not "Assistant not found".
DeletedAssistantUnlinksSessions ==
  [][\A a \in DOMAIN assistants \ DOMAIN assistants' :
       \A s \in DOMAIN sessions :
         sessions[s].assistantId = a =>
           /\ s \in DOMAIN sessions'
           /\ getMessages(s)' = getMessages(s)
           /\ sessions'[s].assistantId = Null]_vars

(* -------------------------- one grant per pair ------------------------- *)
\* C16: in every reachable state storage holds at most one access grant for each pair of
\* a user and an assistant, whatever grants and revocations were made.
OneGrantPerPair ==
  \A g, h \in DOMAIN access :
    (access[g].userId = access[h].userId /\ access[g].assistantId = access[h].assistantId)
      => g = h

(* --------------------------- append-only history ----------------------- *)
\* the messages of session s in the order they were created
CreationOrder(s) == SelectSeq(messages, LAMBDA m : m.sessionId = s)

IsPrefix(p, q) == Len(p) <= Len(q) /\ SubSeq(q, 1, Len(p)) = p

ExportIsRepeatable ==
  [][(/\ sent.sid # Null
      /\ sent'.count = sent.count + 1
      /\ sent'.sid = sent.sid
      /\ sent.format = "json" /\ sent'.format = "json"
      /\ sent'.body.session = sent.body.session
      /\ sent'.body.messages = sent.body.messages)
     => sent'.body = sent.body]_vars

(* ------------------------------ streaming ------------------------------ *)
\* what the client has assembled: the streamingMessage the sentinel found, or the
\* streamingMessage so far when no sentinel was seen
Assembled == IF client.sawDone THEN client.assembled ELSE client.streamingMessage

\* C19: when the client has read, without an error, a stream that ended with the
\* sentinel, whatever the chunks the bytes arrived in, the content it assembled is the
\* concatenation of the deltas of the stream in their order: none lost, duplicated or
\* reordered.
StreamIsAssembledInOrder ==
  (client.pc = "returned" /\ client.sentinel /\ client.wire = <<>> /\ client.toast = "") =>
    Assembled = client.emitted

\* C20: every sendMessage that has returned has left the streaming state, also when the
\* stream ended without the sentinel.
SendMessageLeavesStreaming ==
  client.pc = "returned" => ~client.isStreaming

(* ----------------------- isolated knowledge bases ---------------------- *)
\* the vector store handles the request of turn t carries
SearchedStores(request) ==
  UNION {{request.tools[i].vector_store_ids[j] : j \in DOMAIN request.tools[i].vector_store_ids}
           : i \in DOMAIN request.tools}

\* C21: a chat turn on a session of assistant A passes to the answering call the handle
\* of A's own record or none, and no upload, deletion, edit or chat changes the handle of
\* an assistant's record.
TurnSearchesOwnStore ==
  [][/\ \A t \in Turns :
          (turns[t].pc = "getAssistant" /\ turns'[t].pc = "saveUser") =>
            turns'[t].vectorStoreId = assistants[turns[t].assistantId].openaiVectorStoreId
     /\ \A t \in Turns :
          (turns[t].pc = "saveUser" /\ turns'[t].pc = "call") =>
            SearchedStores(turns'[t].request) = {turns[t].vectorStoreId} \ {Null}
     /\ \A a \in DOMAIN assistants \cap DOMAIN assistants' :
          assistants'[a].openaiVectorStoreId = assistants[a].openaiVectorStoreId]_vars

\* a turn on an assistant sends a request that searches the assistant's store while
\* another assistant, with another store and an uploaded document, exists
TurnSearchesOwnStoreWitness ==
  \E t \in Turns :
    /\ turns[t].pc = "call"
    /\ turns[t].assistantId \in DOMAIN assistants
    /\ SearchedStores(turns[t].request) = {assistants[turns[t].assistantId].openaiVectorStoreId}
    /\ \E b \in DOMAIN assistants \ {turns[t].assistantId} :
         /\ assistants[b].openaiVectorStoreId \notin
              {Null, assistants[turns[t].assistantId].openaiVectorStoreId}
         /\ \E f \in DOMAIN files : files[f].assistantId = b

\* the remote vector stores created for remote assistant a
StoresOf(a) == {v \in DOMAIN remote.vectorStores : remote.vectorStores[v].name = a}

\* C22: once an assistant has a knowledge-base handle (the first vector store linked to
\* its remote assistant), no step changes the handle or creates another remote vector
\* store for that assistant, as long as the assistant exists.
HandleIsSetOnce ==
  [][\A a \in DOMAIN remote.assistants \cap DOMAIN remote.assistants' :
       FirstVectorStore(a) # Null =>
         /\ FirstVectorStore(a)' = FirstVectorStore(a)
         /\ StoresOf(a)' = StoresOf(a)]_vars

\* the users that are administrators
Admins == {u \in UserIds : users[u].role = "admin"}

WithSpan(annotations) ==
  SelectSeq(annotations,
            LAMBDA a : a.type = "file_citation" /\ (a.quote # "" \/ a.text # ""))

\* the turns whose remote call has answered
Answered(t) == turns[t].pc \in {"updateSession", "saveAssistant", "done"} /\ turns[t].responseId # Null

\* C24: chatWithFilesearch returns one citation for each file_citation annotation that
\* has a quote or an annotation text, in their order, and none for any other annotation.
CitationsHaveSpans ==
  \A t \in Turns :
    Answered(t) =>
      /\ Len(turns[t].citations) = Len(WithSpan(turns[t].annotations))
      /\ \A i \in DOMAIN turns[t].citations :
           turns[t].citations[i].content =
             IF WithSpan(turns[t].annotations)[i].quote # ""
               THEN WithSpan(turns[t].annotations)[i].quote
               ELSE WithSpan(turns[t].annotations)[i].text

\* the citations column of the stored message with this id
CitationsOfMessage(id) ==
  {messages[i].citations : i \in {j \in DOMAIN messages : messages[j].id = id}}

\* C25: when a chat turn has answered 200, the assistant message it stored has citations
\* null if the extracted citation list is empty and the full list otherwise, and the
\* response carries the extracted list (the empty list when there is none).
EmptyCitationsStoredAsNull ==
  \A t \in Turns :
    (turns[t].pc = "done" /\ turns[t].status = 200) =>
      LET list == ExtractCitations(turns[t].annotations)
      IN /\ CitationsOfMessage(turns[t].assistantMessage) =
              {IF Len(list) = 0 THEN NullCitations ELSE ListCitations(list)}
         /\ ResponseCitations(t) = list

\* one turn has answered without citations and another with two
EmptyCitationsStoredAsNullWitness ==
  \E t1 \in Turns, t2 \in Turns :
    /\ turns[t1].pc = "done" /\ turns[t1].status = 200
    /\ turns[t2].pc = "done" /\ turns[t2].status = 200
    /\ ResponseCitations(t1) = <<>>
    /\ CitationsOfMessage(turns[t1].assistantMessage) = {NullCitations}
    /\ Len(ResponseCitations(t2)) = 2
    /\ CitationsOfMessage(turns[t2].assistantMessage) = {ListCitations(ResponseCitations(t2))}

\* user u is an administrator or holds a grant for assistant a
Entitled(u, a) == users[u].role = "admin" \/ hasUserAssistantAccess(u, a)

\* C26: a chat turn answers 200 only when, at that moment, the user of the session is an
\* administrator or holds an access grant for the session's assistant.
ChatNeedsGrant ==
  [][\A t \in Turns :
       (turns[t].pc = "saveAssistant" /\ turns'[t].pc = "done" /\ turns'[t].status = 200) =>
         Entitled(turns[t].user, turns[t].assistantId)]_vars

\* C30: for a user who is not an administrator, the assistants POST /api/sessions accepts
\* are the assistants getUserAssistantAccess returns for that user: granted and active.
SessionsOnlyOnActiveGrants ==
  \A u \in UserIds \ Admins :
    {a \in AssistantIdInputs : PostSession(u, a).res.status = 200} = getUserAssistantAccess(u)

\* C27: when the remote call of a chat turn throws, the step leaves the sessions and the
\* messages as they are and answers 500 with the reason thrown; the session's responseId
\* is still the one the turn read, and the last message of the session is the turn's user
\* message: the turn has appended that message and nothing else.
FailedCallLeavesOnlyUserMessage ==
  [][\A t \in Turns, r \in FailureReasons :
       (turns[t].pc = "call" /\ ChatFail(t, r)) =>
         /\ sessions' = sessions
         /\ messages' = messages
         /\ turns'[t].status = 500 /\ turns'[t].error = r
         /\ turns'[t].responseId = Null /\ turns'[t].assistantMessage = Null
         /\ sessions'[turns[t].sessionId].responseId = turns[t].previousResponseId
         /\ LET history == History(messages', turns[t].sessionId)
            IN /\ history # <<>>
               /\ history[Len(history)].id = turns[t].userMessage
               /\ history[Len(history)].role = "user"]_vars

\* the remote call of a turn has thrown, in a session that an earlier turn gave a
\* responseId, for a reason other than the one of an earlier failure
FailedCallWitness ==
  \E t \in Turns, e \in Turns :
    /\ turns[t].pc = "failed" /\ turns[t].responseId = Null /\ turns[t].error = "quota"
    /\ turns[t].previousResponseId # Null
    /\ sessions[turns[t].sessionId].responseId = turns[t].previousResponseId
    /\ turns[e].pc = "done" /\ turns[e].status = 200 /\ turns[e].sessionId = turns[t].sessionId

\* C28: clearing the history of a session leaves no message of that session, every
\* message of every other session, and the sessions as they are, responseId included; a
\* chat turn sends as previous_response_id the responseId the session holds, whether or
\* not the history was cleared since that responseId was stored.
ClearKeepsContinuation ==
  /\ \A s \in DOMAIN sessions :
       LET o == ClearMessages(sessions[s].userId, s)
       IN /\ o.res.status = 200
          /\ o.sessions = sessions
          /\ History(o.messages, s) = <<>>
          /\ \A other \in DOMAIN sessions \ {s} :
               History(o.messages, other) = History(messages, other)
          /\ Len(o.messages) = Len(messages) - Len(History(messages, s))
  /\ \A t \in Turns :
       turns[t].pc = "call" =>
         turns[t].request.previous_response_id = sessions[turns[t].sessionId].responseId

\* a session that has a responseId was cleared, and the turn received after the clear has
\* sent that responseId, while another session keeps its two messages
ClearKeepsContinuationWitness ==
  \E t \in Turns :
    /\ turns[t].pc = "call"
    /\ turns[t].request.previous_response_id # Null
    /\ Len(History(messages, turns[t].sessionId)) = 1
    /\ \E other \in DOMAIN sessions \ {turns[t].sessionId} : Len(History(messages, other)) = 2

\* C29: every stored message is a message of a stored session, and every stored document
\* a document of a stored assistant.
ReferencesExist ==
  /\ \A i \in DOMAIN messages : messages[i].sessionId \in DOMAIN sessions
  /\ \A f \in DOMAIN files : files[f].assistantId \in DOMAIN assistants

====
